---- MODULE Spec2Model ----
(***************************************************************************)
(* Model of uproot's TTree / branch writers                                *)
(* (src/uproot/write/objects/TTree.py).                                    *)
(*                                                                         *)
(* Byte strings are sequences of numbers 0..255.  The bytes a writer       *)
(* returns do not depend on where the cursor stands, so every call on the  *)
(* cursor and every writer is a record                                     *)
(*    [buff |-> bytes returned, adv |-> how far the live cursor moved,     *)
(*     err |-> "ok" or the name of the exception raised]                   *)
(* and a method body is the sequence of these, in program order.           *)
(***************************************************************************)
EXTENDS Integers, Sequences, FiniteSets, TLC

(***************************************************************************)
(* Bounds of the model.                                                    *)
(***************************************************************************)
MaxBranches == 2
MaxCount == 1
MaxIndex == 12
MaxWrites == 2
MaxString == 2
MaxKeylen == 3

(***************************************************************************)
(* struct packing, big-endian ('>' formats: no padding).                   *)
(***************************************************************************)
Pow256(k) == IF k = 0 THEN 1 ELSE IF k = 1 THEN 256 ELSE IF k = 2 THEN 65536 ELSE 16777216

\* k-th byte (0 = least significant) of a non-negative number below 2^31
ByteOf(n, k) == IF k > 3 THEN 0 ELSE (n \div Pow256(k)) % 256

PackU(n, w) == [i \in 1..w |-> ByteOf(n, w - i)]

\* two's complement of width w bytes
PackS(n, w) == IF n >= 0 THEN PackU(n, w)
               ELSE [i \in 1..w |-> 255 - ByteOf((-n) - 1, w - i)]

pack_B(n) == PackU(n, 1)
pack_H(n) == PackU(n, 2)
pack_h(n) == PackS(n, 2)
pack_I(n) == PackU(n, 4)
pack_i(n) == PackS(n, 4)
pack_q(n) == PackS(n, 8)
pack_bool(b) == IF b THEN <<1>> ELSE <<0>>

\* IEEE-754 images of the only floating point value the writers pack, 1.0
pack_f_one == <<63, 128, 0, 0>>
pack_d_one == <<63, 240, 0, 0, 0, 0, 0, 0>>

\* reading a big-endian unsigned field back (used to decode headers)
RECURSIVE UnpackU(_)
UnpackU(bytes) ==
    IF bytes = <<>> THEN 0
    ELSE UnpackU(SubSeq(bytes, 1, Len(bytes) - 1)) * 256 + bytes[Len(bytes)]

(***************************************************************************)
(* uproot.const                                                            *)
(***************************************************************************)
kByteCountMask == 1073741824

\* a | mask for a single-bit mask
BitOr(a, mask) == IF (a \div mask) % 2 = 1 THEN a ELSE a + mask

(***************************************************************************)
(* uproot.write.sink.cursor.Cursor                                         *)
(***************************************************************************)
Cursor(n) == [index |-> n]

skip(n) == [buff |-> <<>>, adv |-> n, err |-> "ok"]

put_fields(packed) == [buff |-> packed, adv |-> Len(packed), err |-> "ok"]

put_string(str) ==
    LET enc == IF Len(str) < 255 THEN pack_B(Len(str)) \o str
               ELSE <<255>> \o pack_I(Len(str)) \o str
    IN [buff |-> enc, adv |-> Len(enc), err |-> "ok"]

put_array(bytes) == [buff |-> bytes, adv |-> Len(bytes), err |-> "ok"]

put_data(bytes) == [buff |-> bytes, adv |-> Len(bytes), err |-> "ok"]

\* copy_cursor = copy(cursor): what is written through the copy returns its
\* bytes and leaves the live cursor where it is
on_copy(step) == [buff |-> step.buff, adv |-> 0, err |-> step.err]

(***************************************************************************)
(* Statements of a method body.                                            *)
(***************************************************************************)
\* a bytes literal concatenated into buff: no cursor is involved
literal(bytes) == [buff |-> bytes, adv |-> 0, err |-> "ok"]

raise(err) == [buff |-> <<>>, adv |-> 0, err |-> err]

\* the steps in program order, up to the first one that raises
RECURSIVE join(_)
join(steps) ==
    IF steps = <<>> THEN literal(<<>>)
    ELSE LET h == Head(steps)
             t == join(Tail(steps))
         IN IF h.err # "ok" THEN h
            ELSE IF t.err # "ok" THEN [buff |-> <<>>, adv |-> h.adv + t.adv, err |-> t.err]
            ELSE [buff |-> h.buff \o t.buff, adv |-> h.adv + t.adv, err |-> "ok"]

(***************************************************************************)
(* Strings: str inputs are code points, bytes inputs are bytes.            *)
(***************************************************************************)
utf8(cp) == IF cp < 128 THEN <<cp>> ELSE <<192 + (cp \div 64), 128 + (cp % 64)>>

RECURSIVE encode_utf8(_)
encode_utf8(cps) ==
    IF cps = <<>> THEN <<>> ELSE utf8(Head(cps)) \o encode_utf8(Tail(cps))

fixstring(string) ==
    IF string.isbytes THEN string.chars ELSE encode_utf8(string.chars)

(***************************************************************************)
(* The byte-count + version header shared by all writers:                  *)
(*     copy_cursor = copy(cursor)                                          *)
(*     cursor.skip(self._format_cntvers.size)                              *)
(*     buff = ...                                                          *)
(*     length = len(buff) + self._format_cntvers.size                      *)
(*     cnt = numpy.int64(length - 4) | uproot.const.kByteCountMask         *)
(*     return copy_cursor.put_fields(self._format_cntvers, cnt, vers) + buff *)
(***************************************************************************)
format_cntvers_size == 6

\* the count taken as the length of the body alone
cntvers_bodylen(buff, vers) ==
    LET cnt == BitOr(Len(buff), kByteCountMask)
    IN on_copy(put_fields(pack_I(cnt) \o pack_H(vers)))

cntvers(buff, vers) ==
    LET length == Len(buff) + format_cntvers_size
        cnt == BitOr(length - 4, kByteCountMask)
    IN on_copy(put_fields(pack_I(cnt) \o pack_H(vers)))

\* b: the skip and the statements that built buff; the result keeps buff as body
framed(vers, b) ==
    IF b.err # "ok" THEN [buff |-> <<>>, adv |-> b.adv, err |-> b.err, body |-> <<>>]
    ELSE [buff |-> cntvers(b.buff, vers).buff \o b.buff, adv |-> b.adv,
          err |-> "ok", body |-> b.buff]

\* body: the statements that build buff
frame(vers, body) == framed(vers, join(<<skip(format_cntvers_size)>> \o body))

(***************************************************************************)
(* Values handed to the dispatcher.                                        *)
(***************************************************************************)
None == [kind |-> "None"]
Object == [kind |-> "object"]
Str == [kind |-> "str"]
\* iterating a str yields its characters, each of them a str
str_chars(string) == IF string = "TLeafI" THEN <<Str, Str, Str, Str, Str, Str>> ELSE <<>>
BranchRef(i) == [kind |-> "branch", id |-> i]

(***************************************************************************)
(* class TTree: construction.  Floating point fields and the two integers  *)
(* above 2^31 are kept as their packed images.                             *)
(***************************************************************************)
\* 1000000000000 = 0xE8D4A51000 as '>q'
pack_q_1e12 == <<0, 0, 0, 232, 212, 165, 16, 0>>

TTree_fields ==
    ("_fLineColor" :> 602) @@
    ("_fLineStyle" :> 1) @@
    ("_fLineWidth" :> 1) @@
    ("_fFillColor" :> 0) @@
    ("_fFillStyle" :> 1001) @@
    ("_fMarkerColor" :> 1) @@
    ("_fMarkerStyle" :> 1) @@
    ("_fMarkerSize" :> pack_f_one) @@
    ("_fEntries" :> 0) @@
    ("_fTotBytes" :> 0) @@
    ("_fZipBytes" :> 0) @@
    ("_fSavedBytes" :> 0) @@
    ("_fFlushedBytes" :> 0) @@
    ("_fWeight" :> pack_d_one) @@
    ("_fTimerInterval" :> 0) @@
    ("_fScanField" :> 25) @@
    ("_fUpdate" :> 0) @@
    ("_fDefaultEntryOffsetLen" :> 1000) @@
    ("_fNClusterRange" :> 0) @@
    ("_fMaxEntries" :> pack_q_1e12) @@
    ("_fMaxEntryLoop" :> pack_q_1e12) @@
    ("_fMaxVirtualSize" :> 0) @@
    ("_fAutoSave" :> -300000000) @@
    ("_fAutoFlush" :> -30000000) @@
    ("_fEstimate" :> 1000000) @@
    ("_fClusterRangeEnd" :> <<>>) @@
    ("_fClusterSize" :> <<>>) @@
    ("_fBranches" :> <<>>) @@
    ("_fFriends" :> None) @@
    ("_fTreeIndex" :> None) @@
    ("_fIndex" :> <<>>) @@
    ("_fIndexValues" :> <<>>) @@
    ("_fAliases" :> None) @@
    ("_fLeaves" :> <<>>) @@
    ("_fUserInfo" :> None) @@
    ("_fBranchRef" :> None)

(***************************************************************************)
(* class TTree: the attribute blocks                                       *)
(***************************************************************************)
TTree_put_tobject == put_fields(pack_H(1) \o pack_I(0) \o pack_I(50331648))

TTree_put_tnamed(name, title) ==
    frame(1, <<TTree_put_tobject, put_string(name), put_string(title)>>)

TTree_put_tattline(self) ==
    frame(2, <<put_fields(pack_h(self.fields["_fLineColor"]) \o
                          pack_h(self.fields["_fLineStyle"]) \o
                          pack_h(self.fields["_fLineWidth"]))>>)

TTree_put_tattfill(self) ==
    frame(2, <<put_fields(pack_h(self.fields["_fFillColor"]) \o
                          pack_h(self.fields["_fFillStyle"]))>>)

TTree_put_tattmarker(self) ==
    frame(2, <<put_fields(pack_h(self.fields["_fMarkerColor"]) \o
                          pack_h(self.fields["_fMarkerStyle"]) \o
                          self.fields["_fMarkerSize"])>>)

IOFeaturesMarker == <<26, 161, 47, 16>>

\* the 4-byte marker concatenated without the matching skip
TTree_put_rootiofeatures_noskip ==
    frame(0, <<literal(IOFeaturesMarker), put_fields(pack_B(0))>>)

\* vers = 0, fIOBits = 0
TTree_put_rootiofeatures ==
    frame(0, <<skip(4), literal(IOFeaturesMarker), put_fields(pack_B(0))>>)

\* version = 1, fUniqueID = 0
TTree_skiptobj(fBits) ==
    join(<<put_fields(pack_h(1)), put_fields(pack_I(0) \o pack_I(fBits))>>)

\* values is the packed image of a numpy array, itemsize bytes per element
TTree_put_tarray(values, itemsize) ==
    join(<<put_fields(pack_i(Len(values) \div itemsize)), put_array(values)>>)

(***************************************************************************)
(* The dispatcher.                                                         *)
(* A util is the set of concrete kinds it has a writer for; NoUtil is the  *)
(* None that branch.util holds until TTree.write sets it.                  *)
(***************************************************************************)
NoUtil == [isNone |-> TRUE, writers |-> {}]
Util(writers) == [isNone |-> FALSE, writers |-> writers]

NullMarker == <<0, 0, 0, 0>>
NewClassTag == <<255, 255, 255, 255>>

(***************************************************************************)
(* class branch                                                            *)
(***************************************************************************)
\* a basket array literal one slot short
Zeros9 == <<0, 0, 0, 0, 0, 0, 0, 0, 0>>

Zeros10 == <<0, 0, 0, 0, 0, 0, 0, 0, 0, 0>>

branch_fields(defaultBasketSize) ==
    ("_fCompress" :> 100) @@
    ("_fBasketSize" :> defaultBasketSize) @@
    ("_fEntryOffsetLen" :> 0) @@
    ("_fWriteBasket" :> 0) @@
    ("_fEntry        self.put_tleaf(cursor)Number" :> 0) @@
    ("_fOffset" :> 0) @@
    ("_fMaxBaskets" :> 10) @@
    ("_fSplitLevel" :> 0) @@
    ("_fEntries" :> 0) @@
    ("_fFirstEntry" :> 0) @@
    ("_fTotBytes" :> 0) @@
    ("_fZipBytes" :> 0) @@
    ("_fBasketBytes" :> Zeros10) @@
    ("_fBasketEntry" :> Zeros10) @@
    ("_fBasketSeek" :> Zeros10) @@
    ("_fFileName" :> <<>>) @@
    ("_fBranches" :> <<>>) @@
    ("_fLeaves" :> <<>>) @@
    ("_fFillColor" :> 0) @@
    ("_fFillStyle" :> 1001) @@
    ("_fEntryNumber" :> 0)

defaultBasketSize == 32000

branch_init(type, name) ==
    LET fields == branch_fields(defaultBasketSize)
    IN [type |-> type,
        name |-> fixstring(name),
        title |-> fixstring(name),
        util |-> NoUtil,
        fields |-> IF type = "int"
                   THEN [fields EXCEPT !["_fLeaves"] = <<"TLeafI">>]
                   ELSE fields]

branch_put_tobject == put_fields(pack_H(1) \o pack_I(0) \o pack_I(54525952))

branch_put_tnamed(name, title) ==
    frame(1, <<branch_put_tobject, put_string(name), put_string(title)>>)

branch_put_tattfill(self) ==
    frame(2, <<put_fields(pack_h(self.fields["_fFillColor"]) \o
                          pack_h(self.fields["_fFillStyle"]))>>)

\* vers = 0, fIOBits = 0
branch_put_rootiofeatures ==
    frame(0, <<skip(4), literal(IOFeaturesMarker), put_fields(pack_B(0))>>)

\* version = 1, fUniqueID = 0
branch_skiptobj(fBits) ==
    join(<<put_fields(pack_h(1)), put_fields(pack_I(0) \o pack_I(fBits))>>)

\* the raw bytes of an array of width-byte integers
RECURSIVE array_bytes(_, _)
array_bytes(values, width) ==
    IF values = <<>> THEN <<>>
    ELSE PackS(Head(values), width) \o array_bytes(Tail(values), width)

BasketsLiteral ==
    <<64, 0, 0, 21, 0, 3, 0, 1, 0, 0, 0, 0, 3,
      0, 0, 0, 0, 0, 0, 0, 0, 0, 0, 0, 0>>

(***************************************************************************)
(* util.put_objany and the writers that call it.  brs is the heap of       *)
(* branch objects, a value BranchRef(i) designates brs[i].                 *)
(***************************************************************************)
RECURSIVE put_objany(_, _, _)
RECURSIVE put_values(_, _, _, _)
RECURSIVE branch_write(_, _)

\* self.util.put_objany(...): self.util is None until TTree.write sets it
util_put_objany(util, obj, brs) ==
    IF util.isNone THEN raise("AttributeError") ELSE put_objany(obj, util, brs)

\* for value in values: buff += self.util.put_objany(cursor, (value, classname), ...)
put_values(values, classname, util, brs) ==
    IF values = <<>> THEN literal(<<>>)
    ELSE join(<<util_put_objany(util, <<Head(values), classname>>, brs),
                put_values(Tail(values), classname, util, brs)>>)

\* values: [sized |-> len(values) works, items |-> the values iterated over];
\* vers = 3, low = 0
branch_put_tobjarray(self, values, classname, fBits, brs) ==
    LET size == IF values.sized THEN Len(values.items) ELSE 1
    IN frame(3, <<branch_skiptobj(fBits),
                  put_string(<<>>),
                  put_fields(pack_i(size) \o pack_i(0)),
                  put_values(values.items, classname, self.util, brs)>>)

\* fLen = 1, fLenType = 4, fOffset = 0, fIsRange = fIsUnsigned = False,
\* fLeafCount = None
branch_put_tleaf(self, brs) ==
    frame(2, <<branch_put_tnamed(self.name, self.title),
               put_fields(pack_i(1) \o pack_i(4) \o pack_i(0) \o
                          pack_bool(FALSE) \o pack_bool(FALSE)),
               util_put_objany(self.util, <<None, "TLeaf">>, brs)>>)

\* fMinimum = 0, fMaximum = 0
branch_put_tleafI(self, brs) ==
    frame(1, <<branch_put_tleaf(self, brs), put_fields(pack_i(0) \o pack_i(0))>>)

\* the leaf array of write: _fLeaves[0] with classname _fLeaves[1]
branch_write_leaves(self, brs) ==
    LET leaves == self.fields["_fLeaves"]
    IN IF Len(leaves) < 2 THEN raise("IndexError")
       ELSE branch_put_tobjarray(self, [sized |-> TRUE, items |-> str_chars(leaves[1])],
                                 leaves[2], 50331648, brs)

\* the two put_fields calls of write, which read self.fields
branch_write_fields1(self) ==
    IF ~ ({"fCompress", "fBasketSize", "fEntryOffsetLen", "fWriteBasket",
           "fEntryNumber"} \subseteq DOMAIN self.fields)
    THEN raise("KeyError")
    ELSE put_fields(pack_i(self.fields["fCompress"]) \o
                    pack_i(self.fields["fBasketSize"]) \o
                    pack_i(self.fields["fEntryOffsetLen"]) \o
                    pack_i(self.fields["fWriteBasket"]) \o
                    pack_q(self.fields["fEntryNumber"]))

branch_write_fields2(self) ==
    IF ~ ({"fOffset", "fMaxBaskets", "fSplitLevel", "fEntries", "fFirstEntry",
           "fTotBytes", "fZipBytes"} \subseteq DOMAIN self.fields)
    THEN raise("KeyError")
    ELSE put_fields(pack_i(self.fields["fOffset"]) \o
                    pack_I(self.fields["fMaxBaskets"]) \o
                    pack_i(self.fields["fSplitLevel"]) \o
                    pack_q(self.fields["fEntries"]) \o
                    pack_q(self.fields["fFirstEntry"]) \o
                    pack_q(self.fields["fTotBytes"]) \o
                    pack_q(self.fields["fZipBytes"]))

branch_write_array(self, key, width) ==
    IF key \notin DOMAIN self.fields THEN raise("KeyError")
    ELSE put_data(array_bytes(self.fields[key], width))

branch_write_filename(self) ==
    IF "fFileName" \notin DOMAIN self.fields THEN raise("KeyError")
    ELSE put_string(self.fields["fFileName"])

\* write leaves self as it is; the result carries it next to the bytes
WithSelf(r, self) ==
    [buff |-> r.buff, adv |-> r.adv, body |-> r.body, err |-> r.err, self |-> self]

\* a write that frames what it has when a field lookup fails
branch_write_partial(self, brs) ==
    WithSelf(frame(13, <<branch_put_tnamed(self.name, self.title \o <<47, 73>>),
                         branch_put_tattfill(self)>>), self)

branch_write(self, brs) ==
    WithSelf(
        frame(13, <<branch_put_tnamed(self.name, self.title \o <<47, 73>>),
                    branch_put_tattfill(self),
                    branch_write_fields1(self),
                    branch_put_rootiofeatures,
                    branch_write_fields2(self),
                    branch_put_tobjarray(self,
                        [sized |-> TRUE, items |-> self.fields["_fBranches"]],
                        "TBranch", 50331648, brs),
                    branch_write_leaves(self, brs),
                    literal(BasketsLiteral),
                    skip(Len(BasketsLiteral)),
                    literal(<<1>>),
                    skip(1),
                    branch_write_array(self, "fBasketBytes", 4),
                    literal(<<1>>),
                    skip(1),
                    branch_write_array(self, "fBasketEntry", 8),
                    branch_write_array(self, "fBasketSeek", 8),
                    branch_write_filename(self),
                    literal(<<0>>),
                    skip(1)>>),
        self)

\* absent value: the null-class marker; a value without a registered writer:
\* UnsupportedType; a branch: class reference, then the branch's own record
put_objany(obj, util, brs) ==
    LET value == obj[1]
    IN IF value = None THEN put_fields(NullMarker)
       ELSE IF value.kind \notin util.writers THEN raise("UnsupportedType")
       ELSE join(<<put_fields(NewClassTag), branch_write(brs[value.id], brs)>>)

(***************************************************************************)
(* class TTree: the object array and write                                 *)
(***************************************************************************)
TTree_init(title, branches) ==
    [fClassName |-> "TTree",
     fTitle |-> fixstring(title),
     branches |-> branches,
     util |-> NoUtil,
     fields |-> TTree_fields]

\* vers = 3, size = len(values), low = 0
TTree_put_tobjarray(self, values, classname, fBits, brs) ==
    frame(3, <<TTree_skiptobj(fBits),
               put_string(<<>>),
               put_fields(pack_i(Len(values)) \o pack_i(0)),
               put_values(values, classname, self.util, brs)>>)

\* the loop with the compressed bytes taken from the uncompressed ones
RECURSIVE TTree_collect_mixed(_, _, _)
TTree_collect_mixed(fields, branches, brs) ==
    IF branches = <<>> THEN fields
    ELSE LET b == brs[Head(branches)]
             f == [fields EXCEPT
                     !["_fEntries"] = @ + b.fields["_fEntries"],
                     !["_fTotBytes"] = @ + b.fields["_fTotBytes"],
                     !["_fZipBytes"] = @ + b.fields["_fTotBytes"],
                     !["_fLeaves"] = Append(@, b.fields["_fLeaves"]),
                     !["_fBranches"] = Append(@, BranchRef(Head(branches)))]
         IN TTree_collect_mixed(f, Tail(branches), brs)

\* the loop over self.branches at the head of write
RECURSIVE TTree_collect(_, _, _)
TTree_collect(fields, branches, brs) ==
    IF branches = <<>> THEN fields
    ELSE LET b == brs[Head(branches)]
             f == [fields EXCEPT
                     !["_fEntries"] = @ + b.fields["_fEntries"],
                     !["_fTotBytes"] = @ + b.fields["_fTotBytes"],
                     !["_fZipBytes"] = @ + b.fields["_fZipBytes"],
                     !["_fLeaves"] = Append(@, b.fields["_fLeaves"]),
                     !["_fBranches"] = Append(@, BranchRef(Head(branches)))]
         IN TTree_collect(f, Tail(branches), brs)

\* branch.util = self.util for every branch of the tree
TTree_setutil(branches, brs, util) ==
    [i \in DOMAIN brs |->
        IF \E k \in DOMAIN branches : branches[k] = i
        THEN [brs[i] EXCEPT !.util = util] ELSE brs[i]]

TTree_put_ttree(self) ==
    put_fields(
        pack_q(self.fields["_fEntries"]) \o
        pack_q(self.fields["_fTotBytes"]) \o
        pack_q(self.fields["_fZipBytes"]) \o
        pack_q(self.fields["_fSavedBytes"]) \o
        pack_q(self.fields["_fFlushedBytes"]) \o
        self.fields["_fWeight"] \o
        pack_i(self.fields["_fTimerInterval"]) \o
        pack_i(self.fields["_fScanField"]) \o
        pack_i(self.fields["_fUpdate"]) \o
        pack_i(self.fields["_fDefaultEntryOffsetLen"]) \o
        pack_I(self.fields["_fNClusterRange"]) \o
        self.fields["_fMaxEntries"] \o
        self.fields["_fMaxEntryLoop"] \o
        pack_q(self.fields["_fMaxVirtualSize"]) \o
        pack_q(self.fields["_fAutoSave"]) \o
        pack_q(self.fields["_fAutoFlush"]) \o
        pack_q(self.fields["_fEstimate"]))

\* the body up to the branch object array with each sentinel byte emitted
\* before its cluster array instead of after it
TTree_write_head_sentinel_first(self, name, brs) ==
    <<TTree_put_tnamed(name, self.fTitle),
      TTree_put_tattline(self),
      TTree_put_tattfill(self),
      TTree_put_tattmarker(self),
      TTree_put_ttree(self),
      literal(<<0>>),
      skip(1),
      put_array(array_bytes(self.fields["_fClusterRangeEnd"], 8)),
      literal(<<0>>),
      skip(1),
      put_array(array_bytes(self.fields["_fClusterSize"], 8)),
      TTree_put_rootiofeatures,
      TTree_put_tobjarray(self, self.fields["_fBranches"], "TBranch", 50331648, brs)>>

\* the body of write up to the branch object array
TTree_write_head(self, name, brs) ==
    <<TTree_put_tnamed(name, self.fTitle),
      TTree_put_tattline(self),
      TTree_put_tattfill(self),
      TTree_put_tattmarker(self),
      TTree_put_ttree(self),
      put_array(array_bytes(self.fields["_fClusterRangeEnd"], 8)),
      literal(<<0>>),
      skip(1),
      put_array(array_bytes(self.fields["_fClusterSize"], 8)),
      literal(<<0>>),
      skip(1),
      TTree_put_rootiofeatures,
      TTree_put_tobjarray(self, self.fields["_fBranches"], "TBranch", 50331648, brs)>>

\* the leaf object array: the whole (empty) listing without branches,
\* otherwise _fLeaves[0][0] with classname _fLeaves[0][1]
TTree_put_leaves(self, brs) ==
    LET leaves == self.fields["_fLeaves"]
    IN IF self.fields["_fBranches"] = <<>>
       THEN TTree_put_tobjarray(self, leaves, "TLeaf", 50331648, brs)
       ELSE IF Len(leaves[1]) < 2 THEN raise("IndexError")
       ELSE TTree_put_tobjarray(self, str_chars(leaves[1][1]), leaves[1][2], 50331648, brs)

\* a failing dispatch dropped instead of raised
dropped(step) == IF step.err = "ok" THEN step ELSE literal(<<>>)

TTree_put_slots_dropped(self, brs) ==
    join(<<dropped(util_put_objany(self.util, <<self.fields["_fAliases"], "TList">>, brs)),
           TTree_put_tarray(array_bytes(self.fields["_fIndexValues"], 8), 8),
           TTree_put_tarray(array_bytes(self.fields["_fIndex"], 8), 8),
           dropped(util_put_objany(self.util,
                                   <<self.fields["_fTreeIndex"], "TVirtualIndex">>, brs)),
           dropped(util_put_objany(self.util, <<self.fields["_fFriends"], "TList">>, brs)),
           dropped(util_put_objany(self.util, <<self.fields["_fUserInfo"], "TList">>, brs)),
           dropped(util_put_objany(self.util,
                                   <<self.fields["_fBranchRef"], "TBranchRef">>, brs))>>)

\* aliases, index values, index, tree index, friends, user info, branch ref
TTree_put_slots(self, brs) ==
    join(<<util_put_objany(self.util, <<self.fields["_fAliases"], "TList">>, brs),
           TTree_put_tarray(array_bytes(self.fields["_fIndexValues"], 8), 8),
           TTree_put_tarray(array_bytes(self.fields["_fIndex"], 8), 8),
           util_put_objany(self.util, <<self.fields["_fTreeIndex"], "TVirtualIndex">>, brs),
           util_put_objany(self.util, <<self.fields["_fFriends"], "TList">>, brs),
           util_put_objany(self.util, <<self.fields["_fUserInfo"], "TList">>, brs),
           util_put_objany(self.util, <<self.fields["_fBranchRef"], "TBranchRef">>, brs)>>)

\* the outcome of write: the updated tree and branches, the packed tree-layout
\* fields, the leaf array written (<<>> when none was), and the calls made to
\* uproot.write.compress.write, each with its cursor and bytes
TTree_write_result(self, brs, write_cursor, head, leaves, givenbytes) ==
    [buff |-> givenbytes.buff, adv |-> givenbytes.adv, body |-> givenbytes.body,
     err |-> givenbytes.err, self |-> self, brs |-> brs,
     packed |-> TTree_put_ttree(self).buff,
     leaves |-> IF head.err = "ok" /\ leaves.err = "ok" THEN <<leaves.buff>> ELSE <<>>,
     compress |-> IF givenbytes.err = "ok"
                  THEN <<[cursor |-> write_cursor, givenbytes |-> givenbytes.buff]>>
                  ELSE <<>>]

\* head: the body up to the branch array; leaves: the leaf array
TTree_write_frame(self, brs, write_cursor, head, leaves) ==
    TTree_write_result(self, brs, write_cursor, head, leaves,
                       frame(20, <<head, leaves, TTree_put_slots(self, brs)>>))

\* self, brs: the tree and the branches after the loop over self.branches
TTree_write_body(self, brs, write_cursor, name) ==
    TTree_write_frame(self, brs, write_cursor,
                      join(TTree_write_head(self, name, brs)), TTree_put_leaves(self, brs))

TTree_write(self, cursor, name, util, brs) ==
    TTree_write_body([self EXCEPT !.util = util,
                                  !.fields = TTree_collect(self.fields, self.branches, brs)],
                     TTree_setutil(self.branches, brs, util), cursor, name)

(***************************************************************************)
(* class Key (TObjString)                                                  *)
(***************************************************************************)
TObjString == <<84, 79, 98, 106, 83, 116, 114, 105, 110, 103>>
CollectableStringClass ==
    <<67, 111, 108, 108, 101, 99, 116, 97, 98, 108, 101, 32,
      115, 116, 114, 105, 110, 103, 32, 99, 108, 97, 115, 115>>

Key_init(string, stringloc) ==
    [string |-> string,
     fVersion |-> 4,
     fObjlen |-> 17 + Len(string),
     fDatime |-> 1573188772,
     fKeylen |-> 0,
     fNbytes |-> (17 + Len(string)) + 0,
     fCycle |-> 1,
     fSeekKey |-> stringloc,
     fSeekPdir |-> 100,
     packer |-> ">ihiIhhii",
     fClassName |-> TObjString,
     fName |-> string,
     fTitle |-> CollectableStringClass]

Key_values(self) ==
    <<self.packer, self.fNbytes, self.fVersion, self.fObjlen, self.fDatime,
      self.fKeylen, self.fCycle, self.fSeekKey, self.fSeekPdir,
      self.fClassName, self.fName, self.fTitle>>

(***************************************************************************)
(* The state: the branch objects, the tree built over them, the caller's   *)
(* live cursor, the outcome of the last call, what the calls of            *)
(* TTree.write did so far, a Key and what its last values() returned.      *)
(***************************************************************************)
VARIABLES brs, tree, cursor, last, wr, keyobj, keyret

vars == <<brs, tree, cursor, last, wr, keyobj, keyret>>

BranchTypes == {"int", "float"}
BranchName == [isbytes |-> FALSE, chars |-> <<120>>]
TreeName == <<116>>
TreeTitle == [isbytes |-> FALSE, chars |-> <<>>]
Names == {<<>>, <<116>>, <<116, 120>>}
Utils == {Util({}), Util({"branch"})}
Slots == {"_fAliases", "_fBranchRef"}

Idle == [op |-> "none", obj |-> 0, before |-> 0, after |-> 0,
         ret |-> <<>>, body |-> <<>>, err |-> "ok"]

Call(op, obj, r) ==
    [op |-> op, obj |-> obj, before |-> cursor.index, after |-> cursor.index + r.adv,
     ret |-> r.buff, body |-> r.body, err |-> r.err]

Init ==
    /\ \E n \in 0..MaxBranches : \E types \in [1..n -> BranchTypes] :
          /\ brs = [i \in 1..n |-> branch_init(types[i], BranchName)]
          /\ tree = TTree_init(TreeTitle, [i \in 1..n |-> i])
    /\ cursor = Cursor(0)
    /\ last = Idle
    /\ wr = [calls |-> 0, packed |-> <<>>, leaves |-> <<>>, compress |-> <<>>]
    /\ keyobj = Key_init(<<>>, 0)
    /\ keyret = <<>>

(***************************************************************************)
(* The caller assigns the counters of a branch (branch.fields[...] = v):   *)
(* k entries of 4 bytes each, compressed to 3 bytes each.                  *)
(***************************************************************************)
SetBranchCounters(i, k) ==
    /\ brs[i].fields["_fEntries"] # k
    /\ brs' = [brs EXCEPT ![i].fields["_fEntries"] = k,
                          ![i].fields["_fTotBytes"] = 4 * k,
                          ![i].fields["_fZipBytes"] = 3 * k]
    /\ last' = Idle
    /\ UNCHANGED <<tree, cursor, wr, keyobj, keyret>>

\* the caller takes a new cursor for the next write
NewCursor ==
    /\ cursor.index # 0
    /\ cursor' = Cursor(0)
    /\ last' = Idle
    /\ UNCHANGED <<brs, tree, wr, keyobj, keyret>>

(***************************************************************************)
(* The caller fills one of the nullable slots of the tree with an object.  *)
(***************************************************************************)
SetSlot(slot) ==
    /\ \A k \in Slots : tree.fields[k] = None
    /\ tree' = [tree EXCEPT !.fields[slot] = Object]
    /\ last' = Idle
    /\ UNCHANGED <<brs, cursor, wr, keyobj, keyret>>

(***************************************************************************)
(* The caller fills two of the arrays of the tree: one cluster range ending *)
(* at -1 (eight 0xFF bytes in either byte order) and one index entry 1.     *)
(***************************************************************************)
SetArrays ==
    /\ tree.fields["_fClusterRangeEnd"] = <<>>
    /\ tree.fields["_fIndex"] = <<>>
    /\ tree' = [tree EXCEPT !.fields["_fClusterRangeEnd"] = <<-1>>,
                            !.fields["_fIndex"] = <<1>>]
    /\ last' = Idle
    /\ UNCHANGED <<brs, cursor, wr, keyobj, keyret>>

(***************************************************************************)
(* branch.append / extend / basket                                         *)
(***************************************************************************)
branch_extend(self) == [self |-> self, err |-> "NotImplementedError"]

branch_append(self) == branch_extend(self)

branch_basket(self) == [self |-> self, err |-> "NotImplementedError"]

BranchCall(i, op, r) ==
    /\ brs' = [brs EXCEPT ![i] = r.self]
    /\ last' = [Idle EXCEPT !.op = op, !.obj = i, !.err = r.err]
    /\ UNCHANGED <<tree, cursor, wr, keyobj, keyret>>

BranchAppend(i) == BranchCall(i, "branch.append", branch_append(brs[i]))

BranchExtend(i) == BranchCall(i, "branch.extend", branch_extend(brs[i]))

BranchBasket(i) == BranchCall(i, "branch.basket", branch_basket(brs[i]))

(***************************************************************************)
(* The writers called on the live cursor.                                  *)
(***************************************************************************)
Frame(op, r) ==
    /\ cursor.index <= MaxIndex
    /\ cursor' = Cursor(cursor.index + r.adv)
    /\ last' = Call(op, 0, r)
    /\ UNCHANGED <<brs, tree, wr, keyobj, keyret>>

TreePutTNamed(name, title) ==
    Frame("TTree.put_tnamed", TTree_put_tnamed(name, title))

TreePutTAttLine == Frame("TTree.put_tattline", TTree_put_tattline(tree))

TreePutTAttFill == Frame("TTree.put_tattfill", TTree_put_tattfill(tree))

TreePutTAttMarker == Frame("TTree.put_tattmarker", TTree_put_tattmarker(tree))

TreePutRootIOFeatures ==
    Frame("TTree.put_rootiofeatures", TTree_put_rootiofeatures)

TreePutTObjArray(values) ==
    Frame("TTree.put_tobjarray",
          TTree_put_tobjarray(tree, values, "TObjArray", 50331648, brs))

BranchPutTNamed(i, name, title) ==
    Frame("branch.put_tnamed", branch_put_tnamed(name, title))

BranchPutTAttFill(i) == Frame("branch.put_tattfill", branch_put_tattfill(brs[i]))

BranchPutRootIOFeatures(i) ==
    Frame("branch.put_rootiofeatures", branch_put_rootiofeatures)

BranchPutTLeaf(i) == Frame("branch.put_tleaf", branch_put_tleaf(brs[i], brs))

BranchPutTLeafI(i) == Frame("branch.put_tleafI", branch_put_tleafI(brs[i], brs))

BranchPutTObjArray(i, values) ==
    Frame("branch.put_tobjarray",
          branch_put_tobjarray(brs[i], values, "TObjArray", 50331648, brs))

BranchWriteCall(i, r) ==
    /\ cursor.index <= MaxIndex
    /\ cursor' = Cursor(cursor.index + r.adv)
    /\ brs' = [brs EXCEPT ![i] = r.self]
    /\ last' = Call("branch.write", i, r)
    /\ UNCHANGED <<tree, wr, keyobj, keyret>>

BranchWrite(i) == BranchWriteCall(i, branch_write(brs[i], brs))

TreeWriteCall(r) ==
    /\ wr.calls < MaxWrites
    /\ cursor.index <= MaxIndex
    /\ cursor' = Cursor(cursor.index + r.adv)
    /\ tree' = r.self
    /\ brs' = r.brs
    /\ last' = Call("TTree.write", 0, r)
    /\ wr' = [calls |-> wr.calls + 1, packed |-> r.packed, leaves |-> r.leaves,
              compress |-> r.compress]
    /\ UNCHANGED <<keyobj, keyret>>

TreeWrite(name, util) == TreeWriteCall(TTree_write(tree, cursor, name, util, brs))

ObjArrays == {<<>>, <<None>>, <<Object>>}
SizedArrays == {[sized |-> TRUE, items |-> <<>>], [sized |-> TRUE, items |-> <<None>>],
                [sized |-> FALSE, items |-> <<None>>], [sized |-> TRUE, items |-> <<Object>>]}

Next ==
    \/ \E i \in DOMAIN brs : \E k \in 0..MaxCount : SetBranchCounters(i, k)
    \/ \E slot \in Slots : SetSlot(slot)
    \/ NewCursor
    \/ \E i \in DOMAIN brs : BranchAppend(i)
    \/ \E i \in DOMAIN brs : BranchExtend(i)
    \/ \E i \in DOMAIN brs : BranchBasket(i)
    \/ \E i \in DOMAIN brs : BranchWrite(i)
    \/ \E util \in Utils : TreeWrite(TreeName, util)

Spec == Init /\ [][Next]_vars

(***************************************************************************)
(* Sequences of writer calls on one cursor.                                *)
(***************************************************************************)
NextFrames ==
    \/ SetArrays
    \/ \E name \in Names : \E title \in Names : TreePutTNamed(name, title)
    \/ TreePutTAttLine
    \/ TreePutTAttFill
    \/ TreePutTAttMarker
    \/ TreePutRootIOFeatures
    \/ \E values \in ObjArrays : TreePutTObjArray(values)
    \/ \E i \in DOMAIN brs : \E name \in Names : \E title \in Names :
          BranchPutTNamed(i, name, title)
    \/ \E i \in DOMAIN brs : BranchPutTAttFill(i)
    \/ \E i \in DOMAIN brs : BranchPutRootIOFeatures(i)
    \/ \E i \in DOMAIN brs : BranchPutTLeaf(i)
    \/ \E i \in DOMAIN brs : BranchPutTLeafI(i)
    \/ \E i \in DOMAIN brs : \E values \in SizedArrays : BranchPutTObjArray(i, values)
    \/ \E i \in DOMAIN brs : BranchWrite(i)
    \/ \E util \in Utils : TreeWrite(TreeName, util)

SpecFrames == Init /\ [][NextFrames]_vars

(***************************************************************************)
(* A Key: constructed, its fields assigned by the caller once the payload  *)
(* is produced, and projected by values().                                 *)
(***************************************************************************)
RECURSIVE BytesOfLen(_)
BytesOfLen(n) == IF n = 0 THEN <<>> ELSE <<97>> \o BytesOfLen(n - 1)

KeyStrings == {BytesOfLen(n) : n \in 0..MaxString}
SeekKeys == {0, 100}
KeyFields == {"fKeylen", "fObjlen"}
FieldValues(field) ==
    IF field = "fKeylen" THEN 0..MaxKeylen ELSE 17..(17 + MaxString)

InitKey ==
    /\ brs = <<>>
    /\ tree = TTree_init(TreeTitle, <<>>)
    /\ cursor = Cursor(0)
    /\ last = Idle
    /\ wr = [calls |-> 0, packed |-> <<>>, leaves |-> <<>>, compress |-> <<>>]
    /\ \E string \in KeyStrings : \E stringloc \in SeekKeys :
          keyobj = Key_init(string, stringloc)
    /\ keyret = <<>>

\* key.fKeylen = v or key.fObjlen = v
KeyAssign(field, v) ==
    /\ keyobj[field] # v
    /\ keyobj' = [keyobj EXCEPT ![field] = v]
    /\ keyret' = <<>>
    /\ UNCHANGED <<brs, tree, cursor, last, wr>>

KeyValues ==
    /\ keyret = <<>>
    /\ keyret' = Key_values(keyobj)
    /\ UNCHANGED <<brs, tree, cursor, last, wr, keyobj>>

NextKey ==
    \/ \E field \in KeyFields : \E v \in FieldValues(field) : KeyAssign(field, v)
    \/ KeyValues

SpecKey == InitKey /\ [][NextKey]_vars

(***************************************************************************)
(* Reading a frame back.                                                   *)
(***************************************************************************)
HeaderCount(bytes) == UnpackU(SubSeq(bytes, 1, 4))
HeaderVersion(bytes) == UnpackU(SubSeq(bytes, 5, 6))
AfterHeader(bytes) == SubSeq(bytes, 7, Len(bytes))

\* the version of each record kind
FrameVersion ==
    [op \in {"TTree.write"} |-> 20] @@
    [op \in {"branch.write"} |-> 13] @@
    [op \in {"TTree.put_tattline", "TTree.put_tattfill", "TTree.put_tattmarker",
             "branch.put_tattfill", "branch.put_tleaf"} |-> 2] @@
    [op \in {"TTree.put_tnamed", "branch.put_tnamed", "branch.put_tleafI"} |-> 1] @@
    [op \in {"TTree.put_rootiofeatures", "branch.put_rootiofeatures"} |-> 0] @@
    [op \in {"TTree.put_tobjarray", "branch.put_tobjarray"} |-> 3]

Returned == last.op \in DOMAIN FrameVersion /\ last.err = "ok"

RECURSIVE SumOver(_, _)
SumOver(key, ids) ==
    IF ids = <<>> THEN 0 ELSE brs[Head(ids)].fields[key] + SumOver(key, Tail(ids))

Totals == <<"_fEntries", "_fTotBytes", "_fZipBytes">>

\* the k-th '>q' field of the packed tree layout
PackedField(k) == UnpackU(SubSeq(wr.packed, 8 * k - 7, 8 * k))

TotalsAreSums ==
    \A k \in 1..3 : /\ tree.fields[Totals[k]] = SumOver(Totals[k], tree.branches)
                    /\ PackedField(k) = SumOver(Totals[k], tree.branches)

\* C3: after the first write of a tree, the totals it recorded and packed
\* are the sums of the branches' counters as they were at that write.
C3_FreshTotals == (last.op = "TTree.write" /\ wr.calls = 1) => TotalsAreSums

C3_Witness ==
    /\ last.op = "TTree.write"
    /\ wr.calls = 1
    /\ Len(tree.branches) = 2
    /\ tree.fields["_fEntries"] = 2
    /\ PackedField(2) = 8
    /\ PackedField(3) = 6

\* C4: after every write of a tree, also a second one, the totals it
\* serialized are the sums over its branches.
C4_TotalsRecomputed == last.op = "TTree.write" => TotalsAreSums

\* a frame of the given version starts at offset k of bytes
FrameAt(bytes, k, vers) ==
    /\ k + 5 <= Len(bytes)
    /\ bytes[k] \div 64 = 1
    /\ UnpackU(SubSeq(bytes, k + 4, k + 5)) = vers
    /\ UnpackU(SubSeq(bytes, k + 1, k + 3)) + 4 + k - 1 <= Len(bytes)

\* C5: writing a tree with one integer branch of zero entries completes and
\* yields a frame of version 20 that holds a branch frame of version 13.
C5_EndToEnd ==
    ( /\ last.op = "TTree.write"
      /\ wr.calls = 1
      /\ Len(tree.branches) = 1
      /\ brs[1].type = "int"
      /\ brs[1].fields["_fEntries"] = 0
      /\ \A slot \in Slots : tree.fields[slot] = None )
    => /\ last.err = "ok"
       /\ HeaderVersion(last.ret) = 20
       /\ \E k \in 7..Len(last.ret) : FrameAt(last.ret, k, 13)

\* C6: an append to a branch that holds fewer than 10 baskets succeeds and
\* counts the basket; beyond that it grows the arrays or raises LayoutError.
C6_AppendBounded ==
    last.op \in {"branch.append", "branch.extend", "branch.basket"} =>
        LET f == brs[last.obj].fields
        IN \/ /\ last.err = "ok"
              /\ f["_fWriteBasket"] >= 1
              /\ f["_fWriteBasket"] <= f["_fMaxBaskets"]
           \/ /\ last.err = "LayoutError"
              /\ f["_fWriteBasket"] = 10

\* the dispatcher has no writer for a value that write hands to it first
DispatchFails ==
    \/ tree.branches # <<>> /\ "branch" \notin tree.util.writers
    \/ tree.branches = <<>> /\ \E slot \in Slots : tree.fields[slot] = Object

\* C7: when put_objany raises UnsupportedType during write, write raises it,
\* returns no buffer and does not call uproot.write.compress.write.
C7_UnsupportedPropagates ==
    last.op = "TTree.write" =>
        /\ DispatchFails => last.err = "UnsupportedType"
        /\ last.err = "UnsupportedType" => (last.ret = <<>> /\ wr.compress = <<>>)

C7_Witness ==
    /\ last.op = "TTree.write"
    /\ last.err = "UnsupportedType"
    /\ tree.branches = <<>>
    /\ tree.fields["_fBranchRef"] = Object
    /\ wr.compress = <<>>

\* C8: branch.write on a branch without a leaf raises and returns no frame,
\* and no call of branch.write changes the branch.
C8_BranchWrite ==
    [][last'.op = "branch.write" =>
          /\ brs' = brs
          /\ brs[last'.obj].fields["_fLeaves"] = <<>> =>
                (last'.err # "ok" /\ last'.ret = <<>>)]_vars

C8_Witness ==
    /\ last.op = "branch.write"
    /\ brs[last.obj].type = "float"
    /\ brs[last.obj].fields["_fLeaves"] = <<>>
    /\ brs[last.obj].fields["_fEntries"] = 1
    /\ last.err = "KeyError"

\* C9: the three basket arrays of every branch have the length _fMaxBaskets,
\* which is 10, and are zero from slot _fWriteBasket on.
C9_BasketArrays ==
    \A i \in DOMAIN brs :
        LET f == brs[i].fields
        IN /\ f["_fMaxBaskets"] = 10
           /\ \A key \in {"_fBasketBytes", "_fBasketEntry", "_fBasketSeek"} :
                 /\ Len(f[key]) = f["_fMaxBaskets"]
                 /\ \A k \in 1..Len(f[key]) : k > f["_fWriteBasket"] => f[key][k] = 0

C9_Witness ==
    /\ last.op = "branch.basket"
    /\ wr.calls >= 1
    /\ brs[last.obj].fields["_fEntries"] = 1
    /\ Len(brs[last.obj].fields["_fBasketSeek"]) = 10

\* C10: write emits a leaf object array with one entry per branch (and an
\* empty one for a tree without branches).
C10_LeafArray ==
    last.op = "TTree.write" =>
        /\ wr.leaves # <<>>
        /\ UnpackU(SubSeq(wr.leaves[1], 18, 21)) = Len(tree.branches)

(***************************************************************************)
(* The body of the tree frame, piece by piece.                             *)
(***************************************************************************)
RECURSIVE Concat(_)
Concat(pieces) ==
    IF pieces = <<>> THEN <<>> ELSE Head(pieces) \o Concat(Tail(pieces))

\* what put_objany returns for one nullable slot of the tree
SlotBytes(slot, classname) ==
    util_put_objany(tree.util, <<tree.fields[slot], classname>>, brs).buff

\* the pieces of the body in the order the record layout lists them
BodyInOrder ==
    <<TTree_put_tnamed(TreeName, tree.fTitle).buff,
      TTree_put_tattline(tree).buff,
      TTree_put_tattfill(tree).buff,
      TTree_put_tattmarker(tree).buff,
      TTree_put_ttree(tree).buff,
      array_bytes(tree.fields["_fClusterRangeEnd"], 8),
      <<0>>,
      array_bytes(tree.fields["_fClusterSize"], 8),
      <<0>>,
      TTree_put_rootiofeatures.buff,
      TTree_put_tobjarray(tree, tree.fields["_fBranches"], "TBranch", 50331648, brs).buff,
      TTree_put_leaves(tree, brs).buff,
      SlotBytes("_fAliases", "TList"),
      TTree_put_tarray(array_bytes(tree.fields["_fIndexValues"], 8), 8).buff,
      TTree_put_tarray(array_bytes(tree.fields["_fIndex"], 8), 8).buff,
      SlotBytes("_fTreeIndex", "TVirtualIndex"),
      SlotBytes("_fFriends", "TList"),
      SlotBytes("_fUserInfo", "TList"),
      SlotBytes("_fBranchRef", "TBranchRef")>>

\* C11: a write that succeeds has emitted the body as the pieces above in
\* that order, and has called uproot.write.compress.write exactly once, with
\* the finished frame (count and version in front of the whole body) and a
\* cursor at the offset the live cursor had on entry to write; a write that
\* raises has not called it.
C11_BodyOrderThenCompress ==
    last.op = "TTree.write" =>
        IF last.err = "ok"
        THEN /\ last.body = Concat(BodyInOrder)
             /\ Len(wr.compress) = 1
             /\ wr.compress[1].cursor.index = last.before
             /\ wr.compress[1].givenbytes = last.ret
             /\ AfterHeader(wr.compress[1].givenbytes) = last.body
             /\ HeaderCount(wr.compress[1].givenbytes) - kByteCountMask = Len(last.body) + 2
             /\ HeaderVersion(wr.compress[1].givenbytes) = 20
        ELSE wr.compress = <<>>

C11_Witness ==
    /\ last.op = "TTree.write"
    /\ last.err = "ok"
    /\ last.before > 0
    /\ tree.fields["_fClusterRangeEnd"] = <<-1>>
    /\ tree.fields["_fIndex"] = <<1>>
    /\ Len(wr.compress) = 1
    /\ wr.compress[1].cursor.index = last.before
    /\ Len(last.body) = 278

\* C12: what values() returns is the packer followed by fNbytes, fVersion,
\* fObjlen, fDatime, fKeylen, fCycle, fSeekKey, fSeekPdir, class name, name
\* and title of the Key as it is, and the fNbytes it returns is the sum of
\* the fObjlen and the fKeylen it returns.
C12_NbytesIsSum ==
    keyret # <<>> =>
        /\ keyret = <<keyobj.packer, keyobj.fNbytes, keyobj.fVersion,
                      keyobj.fObjlen, keyobj.fDatime, keyobj.fKeylen,
                      keyobj.fCycle, keyobj.fSeekKey, keyobj.fSeekPdir,
                      keyobj.fClassName, keyobj.fName, keyobj.fTitle>>
        /\ keyret[2] = keyret[4] + keyret[6]

====
